---- MODULE Spec2Model ----
(***************************************************************************)
(* djangocms-helper: a model of djangocms_helper/main.py.                  *)
(*                                                                         *)
(* One process runs main(): docopt parses the command line, core() opens   *)
(* the two temp_dir() scopes, assembles the settings and runs the handler  *)
(* the operation keyword selects.  Text (labels, author names, lines of    *)
(* the AUTHORS file) is modelled as tuples of character codes, so that     *)
(* lower(), strip(), startswith() and the order sorted() uses are computed *)
(* as Python computes them.                                                *)
(***************************************************************************)
EXTENDS Integers, Sequences, FiniteSets, TLC

VARIABLES
    argv,        \* the command line: [application, op, rest]
    environ,     \* os.environ['DJANGO_LIVE_TEST_SERVER_ADDRESS'] ("" = unset)
    tree,        \* <application>/tests: the modules, in iter_modules order
    AUTHORS,     \* the AUTHORS file: [exists, lines]
    pc,          \* where the process is
    args,        \* docopt's result (NoArgs before parsing)
    calls,       \* number of core() calls of this process
    dirs,        \* the temporary directories that exist on disk
    made,        \* number of temporary directories made so far
    STATIC_ROOT, \* core's STATIC_ROOT (0 outside its scope)
    MEDIA_ROOT,  \* core's MEDIA_ROOT (0 outside its scope)
    settings,    \* django.conf.settings
    applied,     \* number of times a configuration was applied to settings
    assembled,   \* number of _make_settings calls
    running,     \* the handler that is running ("" = none)
    handlers,    \* the handlers this core() call has started, in order
    raised,      \* the exception leaving core ("" = none)
    test_labels, \* the labels handed to the test runner
    executed,    \* the tests the runner executed
    num_failures,\* the runner's result (-1 = the runner did not return)
    called,      \* the management command a handler delegated to
    gitlog,      \* the lines read from git log's stdout
    printed,     \* the author list generate_authors printed
    exitcode     \* the exit status of the process (-1 = still running)

vars == <<argv, environ, tree, AUTHORS, pc, args, calls, dirs, made,
          STATIC_ROOT, MEDIA_ROOT, settings, applied, assembled, running,
          handlers, raised, test_labels, executed, num_failures, called,
          gitlog, printed, exitcode>>

----------------------------------------------------------------------------
(* Bounds of the model *)

MaxArgs == 1        \* command-line tokens after the operation keyword
MaxModules == 2     \* modules under <application>/tests
MaxLines == 2       \* lines of the AUTHORS file and of the git log
MaxCalls == 2       \* core() calls in one process

----------------------------------------------------------------------------
(* Text *)

\* str.lower() on one ASCII character
LowerChar(c) == IF c \in 65..90 THEN c + 32 ELSE c

\* str.lower()
lower(s) == [i \in 1..Len(s) |-> LowerChar(s[i])]

\* s < t in Python's string order (by code point, a proper prefix first)
RECURSIVE StrLess(_, _)
StrLess(s, t) ==
    IF t = <<>> THEN FALSE
    ELSE IF s = <<>> THEN TRUE
    ELSE IF Head(s) # Head(t) THEN Head(s) < Head(t)
    ELSE StrLess(Tail(s), Tail(t))

\* str.startswith(prefix)
startswith(s, prefix) ==
    /\ Len(s) >= Len(prefix)
    /\ SubSeq(s, 1, Len(prefix)) = prefix

\* str.lstrip(chars)
RECURSIVE lstrip(_, _)
lstrip(s, chars) ==
    IF s # <<>> /\ Head(s) \in chars THEN lstrip(Tail(s), chars) ELSE s

\* str.rstrip(chars)
RECURSIVE rstrip(_, _)
rstrip(s, chars) ==
    IF s # <<>> /\ s[Len(s)] \in chars
    THEN rstrip(SubSeq(s, 1, Len(s) - 1), chars)
    ELSE s

\* str.strip(chars)
strip(s, chars) == rstrip(lstrip(s, chars), chars)

\* the characters of "* \n", and the whitespace str.strip() removes
StarSpaceNewline == {42, 32, 10}
Whitespace == {32, 9, 10, 11, 12, 13}

\* sorted() on <<key, value>> pairs: a stable insertion sort by key, each
\* pair put after every pair whose key is not greater
RECURSIVE InsertByKey(_, _)
InsertByKey(p, ps) ==
    IF ps = <<>> THEN <<p>>
    ELSE IF StrLess(p[1], Head(ps)[1]) THEN <<p>> \o ps
    ELSE <<Head(ps)>> \o InsertByKey(p, Tail(ps))

RECURSIVE SortByKey(_)
SortByKey(ps) ==
    IF ps = <<>> THEN <<>>
    ELSE InsertByKey(ps[Len(ps)], SortByKey(SubSeq(ps, 1, Len(ps) - 1)))

\* sorted(xs)
sorted(xs) ==
    LET ps == SortByKey([i \in 1..Len(xs) |-> <<xs[i], xs[i]>>])
    IN  [i \in 1..Len(xs) |-> ps[i][2]]

\* sorted(xs, key=lambda x: x.lower())
sorted_lower(xs) ==
    LET ps == SortByKey([i \in 1..Len(xs) |-> <<lower(xs[i]), xs[i]>>])
    IN  [i \in 1..Len(xs) |-> ps[i][2]]

\* "a.b"
Dot(s, t) == s \o <<46>> \o t

SeqsUpTo(S, n) == UNION {[1..k -> S] : k \in 0..n}

\* a set as a sequence in some fixed order (the order a dict iterates in)
RECURSIVE ItemsOf(_)
ItemsOf(S) ==
    IF S = {} THEN <<>>
    ELSE LET x == CHOOSE y \in S : TRUE IN <<x>> \o ItemsOf(S \ {x})

\* the concatenation of a sequence of sequences
RECURSIVE Flatten(_)
Flatten(ss) == IF ss = <<>> THEN <<>> ELSE Head(ss) \o Flatten(Tail(ss))

IsSorted(xs) == \A i \in 1..(Len(xs) - 1) : ~StrLess(xs[i + 1], xs[i])

NoDuplicates(xs) == \A i, j \in 1..Len(xs) : xs[i] = xs[j] => i = j

----------------------------------------------------------------------------
(* Test-label discovery *)

\* the application under test: "app"
Application == <<97, 112, 112>>

\* class names "A", "B"; method names "test_a", "setUp"
ClassNames == {<<65>>, <<66>>}
MethodNames == {<<116, 101, 115, 116, 95, 97>>, <<115, 101, 116, 85, 112>>}

\* "test_"
TestPrefix == <<116, 101, 115, 116, 95>>

\* what pyclbr sees of one class name in one module
ClassEntries ==
    {c \in [defined : BOOLEAN, methods : SUBSET MethodNames] :
        ~c.defined => c.methods = {}}

\* one module of <application>/tests: pyclbr.readmodule either raises
\* (parses = FALSE) or returns the classes.  The modules of the model define
\* at most one class, and no class without a method.
ModuleFiles ==
    {m \in [parses : BOOLEAN, classes : [ClassNames -> ClassEntries]] :
        /\ ~m.parses => \A c \in ClassNames : ~m.classes[c].defined
        /\ Cardinality({c \in ClassNames : m.classes[c].defined}) <= 1
        /\ \A c \in ClassNames :
              m.classes[c].defined => m.classes[c].methods # {}}

\* <application>/tests, its modules in the order pkgutil.iter_modules lists them
TestTrees == SeqsUpTo(ModuleFiles, MaxModules)

\* the labels of one class: one per method whose name starts with test_
ClassLabels(application, clsname, cls) ==
    LET methods == ItemsOf({m \in cls.methods : startswith(m, TestPrefix)})
    IN  [i \in 1..Len(methods) |-> Dot(Dot(application, clsname), methods[i])]

\* the labels of one module, class by class
ModuleLabels(application, module) ==
    LET names == ItemsOf({c \in ClassNames : module.classes[c].defined})
    IN  Flatten([i \in 1..Len(names) |->
                    ClassLabels(application, names[i], module.classes[names[i]])])

\* _get_test_labels(application): readmodule's exception is not caught, so one
\* module that does not parse ends the call with that exception
_get_test_labels(application, modules) ==
    IF \E i \in 1..Len(modules) : ~modules[i].parses
    THEN [raised |-> "SyntaxError", labels |-> <<>>]
    ELSE [raised |-> "",
          labels |-> sorted(Flatten([i \in 1..Len(modules) |->
                                        ModuleLabels(application, modules[i])]))]

----------------------------------------------------------------------------
(* The authors list *)

\* lines of the AUTHORS file: "* Alice\n", "* bob\n", "* alice\n", "Authors\n"
AuthorsLines ==
    { <<42, 32, 65, 108, 105, 99, 101, 10>>,
      <<42, 32, 98, 111, 98, 10>>,
      <<42, 32, 97, 108, 105, 99, 101, 10>>,
      <<65, 117, 116, 104, 111, 114, 115, 10>> }

\* lines of git log --format=%aN: "Carol\n", "alice\n", "Bob\n"
LogLines ==
    { <<67, 97, 114, 111, 108, 10>>,
      <<97, 108, 105, 99, 101, 10>>,
      <<66, 111, 98, 10>> }

AuthorsFiles ==
    {f \in [exists : BOOLEAN, lines : SeqsUpTo(AuthorsLines, MaxLines)] :
        ~f.exists => f.lines = <<>>}

NoFile == [exists |-> FALSE, lines |-> <<>>]

\* the body both loops share: an author not seen yet (ignoring case) is kept
AddAuthor(acc, author) ==
    IF \E i \in 1..Len(acc.seen_authors) : acc.seen_authors[i] = lower(author)
    THEN acc
    ELSE [seen_authors |-> Append(acc.seen_authors, lower(author)),
          authors |-> Append(acc.authors, author)]

\* the loop over the lines of AUTHORS: only lines that start with "*"
RECURSIVE ReadFileAuthors(_, _)
ReadFileAuthors(acc, lines) ==
    IF lines = <<>> THEN acc
    ELSE ReadFileAuthors(
            IF startswith(Head(lines), <<42>>)
            THEN AddAuthor(acc, strip(Head(lines), StarSpaceNewline))
            ELSE acc,
            Tail(lines))

\* the loop over the lines of the git log
RECURSIVE ReadLogAuthors(_, _)
ReadLogAuthors(acc, lines) ==
    IF lines = <<>> THEN acc
    ELSE ReadLogAuthors(AddAuthor(acc, strip(Head(lines), Whitespace)),
                        Tail(lines))

\* generate_authors() with sorted(authors), the key forgotten
generate_authors_CaseSensitiveSort(filelines, loglines) ==
    LET fromfile == ReadFileAuthors([seen_authors |-> <<>>, authors |-> <<>>],
                                    filelines)
        all == ReadLogAuthors(fromfile, loglines)
    IN  sorted(all.authors)

\* generate_authors(): the list it prints
generate_authors(filelines, loglines) ==
    LET fromfile == ReadFileAuthors([seen_authors |-> <<>>, authors |-> <<>>],
                                    filelines)
        all == ReadLogAuthors(fromfile, loglines)
    IN  sorted_lower(all.authors)

----------------------------------------------------------------------------
(* The command line *)

\* the operation keywords of the usage text, in the order core() tests them
Operations == <<"test", "shell", "compilemessages", "makemessages",
                "makemigrations", "pyflakes", "authors">>

OperationSet == {Operations[i] : i \in 1..Len(Operations)}

\* a test label given on the command line: "app.A.test_a"
ExplicitLabel == Dot(Dot(Application, <<65>>), <<116, 101, 115, 116, 95, 97>>)

\* the tokens that may follow the operation keyword: an option (with its
\* value, for --extra-settings=<path>) or a test label (opt = "")
Tokens ==
    { [opt |-> "--xvfb", val |-> "", label |-> <<>>],
      [opt |-> "--cms", val |-> "", label |-> <<>>],
      [opt |-> "--extra-settings", val |-> "cms_helper.py", label |-> <<>>],
      [opt |-> "--extra-settings", val |-> "missing.py", label |-> <<>>],
      [opt |-> "", val |-> "", label |-> ExplicitLabel] }

\* the command lines: <application>, a word in the operation's place, and
\* up to MaxArgs more tokens
CommandLines ==
    [op : OperationSet \cup {"deploy"}, rest : SeqsUpTo(Tokens, MaxArgs)]

\* the options each usage line accepts
OptionsOf(op) ==
    IF op = "test"
    THEN {"--failfast", "--migrate", "--xvfb", "--runner", "--extra-settings",
          "--cms"}
    ELSE {"--extra-settings", "--cms"}

\* docopt's result before parsing (and when it rejects the command line)
NoArgs ==
    [op |-> [o \in OperationSet |-> FALSE], failfast |-> FALSE,
     xvfb |-> FALSE, cms |-> FALSE, extra_settings |-> "",
     test_label |-> <<>>]

HasOption(rest, opt) == \E i \in 1..Len(rest) : rest[i].opt = opt

\* the positional <test-label>... arguments, in order
RECURSIVE LabelsOf(_)
LabelsOf(rest) ==
    IF rest = <<>> THEN <<>>
    ELSE IF Head(rest).opt = "" THEN <<Head(rest).label>> \o LabelsOf(Tail(rest))
    ELSE LabelsOf(Tail(rest))

\* docopt(__doc__): the command line matches one usage line or is rejected
\* (DocoptExit, a SystemExit).  A match sets the keyword of that usage line.
DocoptAccepts(line) ==
    /\ line.op \in OperationSet
    /\ \A i \in 1..Len(line.rest) :
          IF line.rest[i].opt = ""
          THEN line.op = "test"
          ELSE /\ line.rest[i].opt \in OptionsOf(line.op)
               /\ \A j \in 1..Len(line.rest) :
                     line.rest[j].opt = line.rest[i].opt => j = i

ExtraSettingsOf(rest) ==
    IF HasOption(rest, "--extra-settings")
    THEN (CHOOSE t \in {rest[i] : i \in 1..Len(rest)} :
              t.opt = "--extra-settings").val
    ELSE ""

docopt(line) ==
    [op |-> [o \in OperationSet |-> o = line.op],
     failfast |-> HasOption(line.rest, "--failfast"),
     xvfb |-> HasOption(line.rest, "--xvfb"),
     cms |-> HasOption(line.rest, "--cms"),
     extra_settings |-> ExtraSettingsOf(line.rest),
     test_label |-> LabelsOf(line.rest)]

\* the if/elif chain of core(): the first keyword that is set
RECURSIVE FirstSet(_, _)
FirstSet(a, i) ==
    IF i > Len(Operations) THEN ""
    ELSE IF a.op[Operations[i]] THEN Operations[i]
    ELSE FirstSet(a, i + 1)

\* the chain with the makemessages branch calling compilemessages
SelectHandler_WrongBranch(a) ==
    IF FirstSet(a, 1) = "makemessages" THEN "compilemessages"
    ELSE FirstSet(a, 1)

SelectHandler(a) == FirstSet(a, 1)

----------------------------------------------------------------------------
(* The state after process start *)

NoSettings ==
    [configured |-> FALSE, BASE_APPLICATION |-> <<>>, USE_CMS |-> FALSE,
     STATIC_ROOT |-> 0, MEDIA_ROOT |-> 0, extra_settings |-> ""]

\* the command line reads <application>/tests only for test without labels,
\* and AUTHORS only for authors; what it never reads is left empty
DiscoveryInputs(line) ==
    IF line.op = "test" /\ LabelsOf(line.rest) = <<>> /\ DocoptAccepts(line)
    THEN TestTrees ELSE {<<>>}

AuthorsInputs(line) ==
    IF line.op = "authors" /\ DocoptAccepts(line)
    THEN AuthorsFiles ELSE {NoFile}

EnvironInputs(line) ==
    IF line.op = "test" THEN {"", "localhost:9000"} ELSE {""}

Init ==
    /\ argv \in CommandLines
    /\ environ \in EnvironInputs(argv)
    /\ tree \in DiscoveryInputs(argv)
    /\ AUTHORS \in AuthorsInputs(argv)
    /\ pc = "main"
    /\ args = NoArgs
    /\ calls = 0
    /\ dirs = {}
    /\ made = 0
    /\ STATIC_ROOT = 0
    /\ MEDIA_ROOT = 0
    /\ settings = NoSettings
    /\ applied = 0
    /\ assembled = 0
    /\ running = ""
    /\ handlers = <<>>
    /\ raised = ""
    /\ test_labels = <<>>
    /\ executed = {}
    /\ num_failures = -1
    /\ called = ""
    /\ gitlog = <<>>
    /\ printed = <<>>
    /\ exitcode = -1

inputs == <<argv, tree, AUTHORS>>
scope == <<dirs, made, STATIC_ROOT, MEDIA_ROOT>>
config == <<settings, applied, assembled>>
results == <<test_labels, executed, num_failures, called, gitlog, printed>>

----------------------------------------------------------------------------
(* utils.temp_dir and utils._make_settings *)

\* temp_dir(), entering: a fresh, uniquely named directory is made
temp_dir_enter ==
    /\ made' = made + 1
    /\ dirs' = dirs \cup {made + 1}

\* temp_dir(), leaving (normally or by an exception): the directory is removed
temp_dir_exit(name) == dirs' = dirs \ {name}

\* the override files that cannot be loaded
MissingFiles == {"missing.py"}

\* _make_settings without the "already configured" rejection
_make_settings_Reapplies(a, application, s, static, media) ==
    IF a.extra_settings \in MissingFiles
    THEN [raised |-> "ConfigurationError", settings |-> s]
    ELSE [raised |-> "",
          settings |-> [configured |-> TRUE, BASE_APPLICATION |-> application,
                        USE_CMS |-> a.cms, STATIC_ROOT |-> static,
                        MEDIA_ROOT |-> media,
                        extra_settings |-> a.extra_settings]]

\* _make_settings(args, application, settings, STATIC_ROOT, MEDIA_ROOT): the
\* exception it raises ("" = none) and the settings it leaves
_make_settings(a, application, s, static, media) ==
    IF a.extra_settings \in MissingFiles
    THEN [raised |-> "ConfigurationError", settings |-> s]
    ELSE IF s.configured
    THEN [raised |-> "RuntimeError", settings |-> s]
    ELSE [raised |-> "",
          settings |-> [configured |-> TRUE, BASE_APPLICATION |-> application,
                        USE_CMS |-> a.cms, STATIC_ROOT |-> static,
                        MEDIA_ROOT |-> media,
                        extra_settings |-> a.extra_settings]]

----------------------------------------------------------------------------
(* main() and core() *)

\* main() calling core() with whatever docopt made of the command line
Main_NoValidation ==
    /\ pc = "main"
    /\ args' = docopt(argv)
    /\ pc' = "core"
    /\ UNCHANGED <<inputs, environ, calls, scope, config, running, handlers,
                   raised, results, exitcode>>

\* main(): docopt rejects the command line (exit status 1), or the
\* application cannot be imported (an uncaught ImportError), or core() is called
Main ==
    /\ pc = "main"
    /\ \/ /\ ~DocoptAccepts(argv)
          /\ pc' = "exited"
          /\ raised' = "DocoptExit"
          /\ exitcode' = 1
          /\ UNCHANGED args
       \/ /\ DocoptAccepts(argv)
          /\ \E importable \in BOOLEAN :
                IF importable
                THEN /\ args' = docopt(argv)
                     /\ pc' = "core"
                     /\ UNCHANGED <<raised, exitcode>>
                ELSE /\ pc' = "exited"
                     /\ raised' = "ImportError"
                     /\ exitcode' = 1
                     /\ UNCHANGED args
    /\ UNCHANGED <<inputs, environ, calls, scope, config, running, handlers,
                   results>>

\* core(): with temp_dir() as STATIC_ROOT
CoreEnterStatic ==
    /\ pc = "core"
    /\ calls' = calls + 1
    /\ temp_dir_enter
    /\ STATIC_ROOT' = made + 1
    /\ handlers' = <<>>
    /\ raised' = ""
    /\ pc' = "static"
    /\ UNCHANGED <<inputs, environ, args, MEDIA_ROOT, config, running,
                   results, exitcode>>

\* core(): with temp_dir() as MEDIA_ROOT
CoreEnterMedia ==
    /\ pc = "static"
    /\ temp_dir_enter
    /\ MEDIA_ROOT' = made + 1
    /\ pc' = "media"
    /\ UNCHANGED <<inputs, environ, args, calls, STATIC_ROOT, config, running,
                   handlers, raised, results, exitcode>>

\* core(): _make_settings(args, application, settings, STATIC_ROOT, MEDIA_ROOT)
CoreMakeSettings ==
    /\ pc = "media"
    /\ LET r == _make_settings(args, Application, settings, STATIC_ROOT,
                               MEDIA_ROOT)
       IN  /\ settings' = r.settings
           /\ applied' = IF r.raised = "" THEN applied + 1 ELSE applied
           /\ raised' = r.raised
           /\ pc' = IF r.raised = "" THEN "dispatch" ELSE "exit_media"
    /\ assembled' = assembled + 1
    /\ UNCHANGED <<inputs, environ, args, calls, scope, running, handlers,
                   results, exitcode>>

\* core(): the if/elif chain calls the handler of the first keyword set
CoreDispatch ==
    /\ pc = "dispatch"
    /\ LET h == SelectHandler(args)
       IN  IF h = ""
           THEN /\ pc' = "exit_media"
                /\ UNCHANGED <<running, handlers>>
           ELSE /\ running' = h
                /\ handlers' = Append(handlers, h)
                /\ pc' = "handler"
    /\ UNCHANGED <<inputs, environ, args, calls, scope, config, raised,
                   results, exitcode>>

\* a handler ends, with the exception it raises ("" = it returns)
HandlerEnds(exc) ==
    /\ running' = ""
    /\ raised' = exc
    /\ pc' = "exit_media"
    /\ UNCHANGED <<inputs, args, calls, scope, config, handlers, exitcode>>

----------------------------------------------------------------------------
(* The operation handlers *)

\* the width of a process exit status: sys.exit(n) ends the process with
\* status n mod 256
ExitStatusRange == 256

\* the failure counts a test run may report
FailureCounts ==
    {0, 1, ExitStatusRange}

\* the tests of the other installed applications: "auth.T.test_x"
InstalledTests ==
    { <<97, 117, 116, 104, 46, 84, 46, 116, 101, 115, 116, 95, 120>> }

\* _test_run_worker(test_labels, failfast, test_runner): the runs the test
\* runner may make.  Given labels it runs what they name; given no label it
\* chooses itself what to run (Django's runners then run every test they find
\* in the installed applications).  A label may stand for many tests, so the
\* failure count is not bounded by the number of labels.
_test_run_worker(labels) ==
    LET runs == IF labels # <<>>
                THEN {{labels[i] : i \in 1..Len(labels)}}
                ELSE SUBSET InstalledTests
    IN  UNION {[executed : {e},
                failures : IF e = {} THEN {0} ELSE FailureCounts] : e \in runs}

\* test(test_labels, application, ...), up to the call of the runner:
\* test_labels or _get_test_labels(application)
test(labels, application, modules) ==
    IF labels # <<>>
    THEN [raised |-> "", labels |-> labels]
    ELSE _get_test_labels(application, modules)

\* core(), the test branch: the live-server address is set if unset, the
\* context is entered (xvfbwrapper may be missing), test() runs and its result
\* goes to sys.exit
Test ==
    /\ pc = "handler"
    /\ running = "test"
    /\ environ' = IF environ = "" THEN "localhost:8000-9000" ELSE environ
    /\ \E xvfbwrapper \in BOOLEAN :
          LET found == test(args.test_label, Application, tree)
          IN  IF args.xvfb /\ ~xvfbwrapper
              THEN /\ HandlerEnds("ImportError")
                   /\ UNCHANGED results
              ELSE IF found.raised # ""
              THEN /\ HandlerEnds(found.raised)
                   /\ UNCHANGED results
              ELSE \E r \in _test_run_worker(found.labels) :
                      /\ test_labels' = found.labels
                      /\ executed' = r.executed
                      /\ num_failures' = r.failures
                      /\ HandlerEnds("SystemExit")
                      /\ UNCHANGED <<called, gitlog, printed>>

\* shell()
Shell ==
    /\ pc = "handler"
    /\ running = "shell"
    /\ called' = "shell"
    /\ \E exc \in {"", "CommandError"} : HandlerEnds(exc)
    /\ UNCHANGED <<environ, test_labels, executed, num_failures, gitlog,
                   printed>>

\* compilemessages(application)
CompileMessages ==
    /\ pc = "handler"
    /\ running = "compilemessages"
    /\ called' = "compilemessages"
    /\ \E exc \in {"", "CommandError"} : HandlerEnds(exc)
    /\ UNCHANGED <<environ, test_labels, executed, num_failures, gitlog,
                   printed>>

\* makemessages(application)
MakeMessages ==
    /\ pc = "handler"
    /\ running = "makemessages"
    /\ called' = "makemessages"
    /\ \E exc \in {"", "CommandError"} : HandlerEnds(exc)
    /\ UNCHANGED <<environ, test_labels, executed, num_failures, gitlog,
                   printed>>

\* makemigrations(application): south's schemamigration up to Django 1.6,
\* --initial when migrations/0001_initial.py cannot be loaded, else --auto
MakeMigrations ==
    /\ pc = "handler"
    /\ running = "makemigrations"
    /\ \E DJANGO_1_6, has_initial \in BOOLEAN :
          called' = IF ~DJANGO_1_6 THEN "makemigrations"
                    ELSE IF has_initial THEN "schemamigration --auto"
                    ELSE "schemamigration --initial"
    /\ \E exc \in {"", "CommandError"} : HandlerEnds(exc)
    /\ UNCHANGED <<environ, test_labels, executed, num_failures, gitlog,
                   printed>>

\* static_analisys(application): without django CMS a message is printed;
\* with it, pyflakes must report 0
StaticAnalysis ==
    /\ pc = "handler"
    /\ running = "pyflakes"
    /\ \E cms_installed \in BOOLEAN, issues \in 0..1 :
          IF cms_installed
          THEN /\ called' = "pyflakes"
               /\ HandlerEnds(IF issues = 0 THEN "" ELSE "AssertionError")
          ELSE /\ called' = ""
               /\ HandlerEnds("")
    /\ UNCHANGED <<environ, test_labels, executed, num_failures, gitlog,
                   printed>>

\* generate_authors(): AUTHORS is opened for reading (IOError when it does
\* not exist), the git log is read, the merged list is printed
GenerateAuthors ==
    /\ pc = "handler"
    /\ running = "authors"
    /\ IF AUTHORS.exists
       THEN \E log \in SeqsUpTo(LogLines, MaxLines) :
               /\ gitlog' = log
               /\ printed' = generate_authors(AUTHORS.lines, log)
               /\ HandlerEnds("")
       ELSE /\ HandlerEnds("IOError")
            /\ UNCHANGED <<gitlog, printed>>
    /\ UNCHANGED <<environ, test_labels, executed, num_failures, called>>

\* KeyboardInterrupt inside the scopes of core()
Interrupt ==
    /\ pc \in {"static", "media", "dispatch", "handler"}
    /\ raised' = "KeyboardInterrupt"
    /\ running' = ""
    /\ pc' = IF pc = "static" THEN "exit_static" ELSE "exit_media"
    /\ UNCHANGED <<inputs, environ, args, calls, scope, config, handlers,
                   results, exitcode>>

\* the MEDIA_ROOT scope removing the directory of the STATIC_ROOT scope
CoreExitMedia_RemovesStatic ==
    /\ pc = "exit_media"
    /\ temp_dir_exit(STATIC_ROOT)
    /\ MEDIA_ROOT' = 0
    /\ pc' = "exit_static"
    /\ UNCHANGED <<inputs, environ, args, calls, made, STATIC_ROOT, config,
                   running, handlers, raised, results, exitcode>>

\* core(): the MEDIA_ROOT scope is left
CoreExitMedia ==
    /\ pc = "exit_media"
    /\ temp_dir_exit(MEDIA_ROOT)
    /\ MEDIA_ROOT' = 0
    /\ pc' = "exit_static"
    /\ UNCHANGED <<inputs, environ, args, calls, made, STATIC_ROOT, config,
                   running, handlers, raised, results, exitcode>>

\* STATIC_ROOT made outside a with statement: nothing removes it
CoreExitStatic_NoCleanup ==
    /\ pc = "exit_static"
    /\ STATIC_ROOT' = 0
    /\ pc' = "ended"
    /\ UNCHANGED <<inputs, environ, args, calls, dirs, made, MEDIA_ROOT,
                   config, running, handlers, raised, results, exitcode>>

\* core(): the STATIC_ROOT scope is left, and core() is over
CoreExitStatic ==
    /\ pc = "exit_static"
    /\ temp_dir_exit(STATIC_ROOT)
    /\ STATIC_ROOT' = 0
    /\ pc' = "ended"
    /\ UNCHANGED <<inputs, environ, args, calls, made, MEDIA_ROOT, config,
                   running, handlers, raised, results, exitcode>>

\* the exit status of a process that main() leaves with exception exc:
\* 0 on return, the low 8 bits of sys.exit's argument, 1 on a traceback
ExitStatus(exc, code) ==
    IF exc = "" THEN 0
    ELSE IF exc = "SystemExit" THEN code % ExitStatusRange
    ELSE 1

\* main() is over: the process exits
MainExit ==
    /\ pc = "ended"
    /\ pc' = "exited"
    /\ exitcode' = ExitStatus(raised, num_failures)
    /\ UNCHANGED <<inputs, environ, args, calls, scope, config, running,
                   handlers, raised, results>>

\* core(args, application) is called once more in the same process, by a
\* caller that caught what the call before raised
CoreAgain ==
    /\ pc = "ended"
    /\ calls < MaxCalls
    /\ pc' = "core"
    /\ UNCHANGED <<inputs, environ, args, calls, scope, config, running,
                   handlers, raised, results, exitcode>>

Next ==
    \/ Main
    \/ CoreEnterStatic
    \/ CoreEnterMedia
    \/ CoreMakeSettings
    \/ CoreDispatch
    \/ Test
    \/ Shell
    \/ CompileMessages
    \/ MakeMessages
    \/ MakeMigrations
    \/ StaticAnalysis
    \/ GenerateAuthors
    \/ Interrupt
    \/ CoreExitMedia
    \/ CoreExitStatic
    \/ MainExit
    \/ CoreAgain

Spec == Init /\ [][Next]_vars

----------------------------------------------------------------------------
(* Properties *)

\* core() is over (it returned or an exception left it)
CoreOver == pc \in {"ended", "exited"}

\* the selected handler has ended without being interrupted
HandlerOver(h) ==
    /\ handlers = <<h>>
    /\ running = ""
    /\ pc \in {"exit_media", "exit_static", "ended", "exited"}
    /\ raised # "KeyboardInterrupt"

StaticExists == STATIC_ROOT # 0 /\ STATIC_ROOT \in dirs
MediaExists == MEDIA_ROOT # 0 /\ MEDIA_ROOT \in dirs

\* C1: once the command has completed, however core() ended (return, error
\* of the handler or of the configuration assembly, sys.exit of the test
\* branch, interruption), no temporary directory exists any more
C1_NoTempDirAfterCommand == CoreOver => dirs = {}

\* a test run that was interrupted in its handler, after both directories
\* were made, and is over
C1_Witness ==
    /\ pc = "ended"
    /\ raised = "KeyboardInterrupt"
    /\ handlers = <<"test">>
    /\ made = 2
    /\ dirs = {}

\* C2: the media-root directory exists only while the static-root directory
\* does (made after it, removed before it); both exist when _make_settings
\* starts and as long as the handler runs
C2_ScopeNesting ==
    /\ MediaExists => StaticExists
    /\ pc \in {"media", "dispatch", "handler"} =>
          /\ StaticExists
          /\ MediaExists
          /\ STATIC_ROOT # MEDIA_ROOT
    /\ running # "" => pc = "handler"
    /\ pc = "exit_static" => ~MediaExists /\ StaticExists

\* a handler is running and both directories exist
C2_Witness == running = "shell" /\ StaticExists /\ MediaExists

\* C3: a core() call starts at most one handler, the one of the operation
\* keyword of the command line, and only after its configuration assembly has
\* succeeded (the settings in force name the directories of this call); a
\* call that ends without assembly error or interruption has started exactly
\* one
C3_ExactlyOneHandler ==
    /\ Len(handlers) <= 1
    /\ handlers # <<>> =>
          /\ handlers[1] = argv.op
          /\ assembled >= 1
          /\ settings.configured
          /\ settings.MEDIA_ROOT = made
          /\ settings.STATIC_ROOT = made - 1
    /\ running # "" => handlers = <<running>>
    /\ (pc = "ended" /\ raised \notin {"ConfigurationError", "RuntimeError",
                                       "KeyboardInterrupt"}) =>
          Len(handlers) = 1

\* makemessages has run and returned, and core() is over
C3_Witness ==
    /\ pc = "ended"
    /\ handlers = <<"makemessages">>
    /\ called = "makemessages"
    /\ raised = ""

\* C4: for the test operation, the exit code of the process equals the
\* failure count the test runner returned
C4_ExitCodeIsFailureCount ==
    (pc = "exited" /\ raised = "SystemExit") => exitcode = num_failures

\* the test operation ran with the labels of discovery, no explicit label
DiscoveryRan == HandlerOver("test") /\ args.test_label = <<>>

\* C5: for an application with zero test modules, _get_test_labels returns
\* the empty sequence, and test without explicit labels then runs no test and
\* reports zero failures
C5_NoModulesRunsNothing ==
    (DiscoveryRan /\ tree = <<>> /\ raised # "ImportError") =>
        /\ _get_test_labels(Application, tree).labels = <<>>
        /\ raised = "SystemExit"
        /\ test_labels = <<>>
        /\ executed = {}
        /\ num_failures = 0

\* C6: the labels _get_test_labels returns are sorted and hold no label twice
C6_LabelsSortedNoDuplicates ==
    (DiscoveryRan /\ raised = "SystemExit") =>
        /\ test_labels = _get_test_labels(Application, tree).labels
        /\ IsSorted(test_labels)
        /\ NoDuplicates(test_labels)

\* the modules of a tree that parse
RECURSIVE Parsing(_)
Parsing(modules) ==
    IF modules = <<>> THEN <<>>
    ELSE IF Head(modules).parses THEN <<Head(modules)>> \o Parsing(Tail(modules))
    ELSE Parsing(Tail(modules))

\* C7: a module that fails to parse is skipped: discovery still returns the
\* labels of every other module
C7_ParseFailureSkipsModule ==
    (DiscoveryRan /\ raised # "ImportError") =>
        /\ raised = "SystemExit"
        /\ test_labels = _get_test_labels(Application, Parsing(tree)).labels

C9_RejectedBeforeCore ==
    ~DocoptAccepts(argv) =>
        /\ pc \in {"main", "exited"}
        /\ pc = "exited" => raised = "DocoptExit" /\ exitcode = 1
        /\ calls = 0
        /\ made = 0
        /\ dirs = {}
        /\ assembled = 0
        /\ settings = NoSettings
        /\ handlers = <<>>

\* the process has exited on an unrecognized operation keyword
C9_Witness ==
    /\ argv.op = "deploy"
    /\ pc = "exited"
    /\ raised = "DocoptExit"

\* the names generate_authors reads, the file's first
RECURSIVE StarLines(_)
StarLines(lines) ==
    IF lines = <<>> THEN <<>>
    ELSE IF Head(lines)[1] = 42 THEN <<Head(lines)>> \o StarLines(Tail(lines))
    ELSE StarLines(Tail(lines))

NamesRead ==
    LET fl == StarLines(AUTHORS.lines)
    IN  [i \in 1..Len(fl) |-> strip(fl[i], StarSpaceNewline)]
        \o [i \in 1..Len(gitlog) |-> strip(gitlog[i], Whitespace)]

\* "Alice", "bob", "Carol"
Alice == <<65, 108, 105, 99, 101>>
Bob == <<98, 111, 98>>
Carol == <<67, 97, 114, 111, 108>>

\* AUTHORS is "* Alice\n* bob\n" and the log is Carol, alice
AuthorsExample ==
    /\ AUTHORS.lines = << <<42, 32>> \o Alice \o <<10>>,
                          <<42, 32>> \o Bob \o <<10>> >>
    /\ gitlog = << Carol \o <<10>>, lower(Alice) \o <<10>> >>

\* what generate_authors printed: every name read, once ignoring case, in
\* the casing of its first occurrence, sorted ignoring case
AuthorsMerged ==
    /\ \A i \in 1..Len(NamesRead) :
          \E j \in 1..Len(printed) : lower(printed[j]) = lower(NamesRead[i])
    /\ \A j \in 1..Len(printed) :
          \E i \in 1..Len(NamesRead) :
             /\ NamesRead[i] = printed[j]
             /\ \A k \in 1..(i - 1) : lower(NamesRead[k]) # lower(printed[j])
    /\ \A i, j \in 1..Len(printed) :
          lower(printed[i]) = lower(printed[j]) => i = j
    /\ \A i \in 1..(Len(printed) - 1) :
          StrLess(lower(printed[i]), lower(printed[i + 1]))
    /\ AuthorsExample => printed = <<Alice, Bob, Carol>>

====
